---- MODULE Spec2Model ----
(***************************************************************************)
(* bevy-earth: the asynchronous patch pipeline and the loading state       *)
(* machine.                                                                 *)
(*                                                                          *)
(* The control thread runs one frame ("tick") after another.  A frame is   *)
(* Bevy's Main schedule: on the first frame the Startup schedule and its   *)
(* command flush, then in every frame StateTransition, Update (with its    *)
(* command flush) and PostUpdate (where the egui pass runs).  Worker       *)
(* threads of the AsyncComputeTaskPool and the asset server run            *)
(* concurrently with the control thread.                                    *)
(*                                                                          *)
(* The load state is state.rs's GameState (default PreLoading), the       *)
(* loading screen is gui.rs's display_loading_screen (which counts the     *)
(* frames of PreLoading); the schedules, the systems and the jobs are      *)
(* main.rs's.                                                               *)
(*                                                                          *)
(* The code dispatches 6 x 4 = 24 jobs and compares progress.mesh with the *)
(* literal 24.  The model dispatches the first NumJobs patches of that     *)
(* enumeration and scales the literal to MeshTarget = NumJobs, so that     *)
(* every interleaving of the workers can be enumerated.                     *)
(***************************************************************************)
EXTENDS Integers, Sequences, FiniteSets

\* Number of patch jobs the model dispatches (the code: 24).
NumJobs == 3

\* resource.rs: `self.texture >= 3`
TEXTURE_TARGET == 3

\* gui.rs: `*frames_rendered >= 3`
PRELOAD_FRAMES == 3

\* resource.rs: `self.mesh >= 24`, scaled to the number of dispatched jobs.
MeshTarget == NumJobs

\* main.rs spawn_task: `let faces = [...]`
faces == <<"X", "NEG_X", "Y", "NEG_Y", "Z", "NEG_Z">>

\* main.rs spawn_task: `let offsets = [...]`
offsets == << <<0, 0>>, <<0, 1>>, <<1, 0>>, <<1, 1>> >>

\* The jobs, numbered in dispatch order.
Jobs == 1..NumJobs

\* PatchSpec with the offsets as the outer loop.
PatchSpec_OffsetsOuter(j) ==
    [normal |-> faces[((j - 1) % Len(faces)) + 1],
     offset |-> offsets[((j - 1) \div Len(faces)) + 1]]

\* main.rs spawn_task: `for direction in faces { for offset in offsets {`
\* the j-th patch of the enumeration, normals outer loop, offsets inner loop.
PatchSpec(j) ==
    [normal |-> faces[((j - 1) \div Len(offsets)) + 1],
     offset |-> offsets[((j - 1) % Len(offsets)) + 1]]

\* The three texture handles of EarthTexture.
Textures == {"base_color", "metallic_roughness", "normal_map"}

\* state.rs: enum GameState, in declaration order.
GameStates == <<"PreLoading", "Loading", "PostLoading", "Playing">>

\* A child slot that has not received Mesh3d / MeshMaterial3d.
NoMesh == [filled |-> FALSE]

Range(s) == {s[i] : i \in 1..Len(s)}

\* Every order in which a query can visit the entities of S.
Orders(S) ==
    {f \in [1..Cardinality(S) -> S] : \A a, b \in 1..Cardinality(S) : f[a] = f[b] => a = b}

VARIABLES
    gameState,        \* State<GameState>
    nextState,        \* NextState<GameState>: "Unchanged" or the pending state
    phase,            \* the control thread's position in the frame
    updOrder,         \* the Loading systems already run in this frame's Update
    frames_rendered,  \* display_loading_screen's Local<u8>
    progress,         \* LoadingProgress {mesh, texture}
    texLoaded,        \* textures the asset server has loaded
    task,             \* per job: the state of its Task<CommandQueue>
    hasTask,          \* per job: its entity carries ComputeMesh
    slot,             \* per job: what its child entity holds
    meshAssets,       \* per job: meshes added to Assets<Mesh> from its face
    children,         \* the Earth parent's children, in order
    earthVis,         \* the Earth parent's Visibility ("NotSpawned" before)
    commands,         \* the deferred commands queued in the running schedule
    pickingMode,      \* DebugPickingMode
    crashed,          \* a system panicked: the app has terminated
    fn,               \* math.rs: the function being evaluated ("none": no call)
    args,             \* its arguments
    loc,              \* generate_face's local variables
    ret               \* what the call has returned ("pending" until it ends)

\* The state of the running app.
appVars == <<gameState, nextState, phase, updOrder, frames_rendered, progress,
             texLoaded, task, hasTask, slot, meshAssets, children, earthVis,
             commands, pickingMode, crashed>>

\* One evaluation of a function of math.rs, taken on its own.
mathVars == <<fn, args, loc, ret>>

vars == <<appVars, mathVars>>

\* What a worker can never reach: everything but the tasks' own state.
shared == <<gameState, nextState, progress, hasTask, slot, meshAssets,
            children, earthVis, pickingMode>>

\* main.rs main(): init_state (default PreLoading), init_resource, Disabled
\* picking; nothing spawned yet, the Startup schedule has not run.
ProgramStart ==
    /\ gameState = "PreLoading"
    /\ nextState = "Unchanged"
    /\ phase = "Startup"
    /\ updOrder = <<>>
    /\ frames_rendered = 0
    /\ progress = [mesh |-> 0, texture |-> 0]
    /\ texLoaded = {}
    /\ task = [j \in Jobs |-> "unspawned"]
    /\ hasTask = [j \in Jobs |-> FALSE]
    /\ slot = [j \in Jobs |-> NoMesh]
    /\ meshAssets = [j \in Jobs |-> 0]
    /\ children = <<>>
    /\ earthVis = "NotSpawned"
    /\ commands = <<>>
    /\ pickingMode = "Disabled"
    /\ crashed = FALSE

\* No function of math.rs is being evaluated on its own.
NoCall == [kind |-> "none"]

\* The app at its start; the jobs' calls of generate_face are part of
\* WorkerFinish / WorkerPanic.
Init ==
    /\ ProgramStart
    /\ fn = "none"
    /\ args = NoCall
    /\ loc = NoCall
    /\ ret = NoCall

----------------------------------------------------------------------------
(* Startup *)

\* The commands spawn_task queues for job j, in program order.
SpawnCommands(j) ==
    <<[op |-> "add_child", job |-> j], [op |-> "insert_task", job |-> j]>>

RECURSIVE SpawnAll(_)
SpawnAll(n) == IF n = 0 THEN <<>> ELSE SpawnAll(n - 1) \o SpawnCommands(n)

\* main.rs spawn_task: queues the Earth parent and, per patch, a child and
\* its ComputeMesh; thread_pool.spawn starts every task at once.
spawn_task ==
    /\ phase = "Startup"
    /\ ~crashed
    /\ commands' = <<[op |-> "spawn_earth", job |-> 0]>> \o SpawnAll(NumJobs)
    /\ task' = [j \in Jobs |-> "running"]
    /\ phase' = "StartupSync"
    /\ UNCHANGED <<gameState, nextState, updOrder, frames_rendered, progress,
                   texLoaded, hasTask, slot, meshAssets, children, earthVis,
                   pickingMode, crashed>>
    /\ UNCHANGED mathVars

----------------------------------------------------------------------------
(* Deferred commands *)

\* The part of the world that commands change.
World == [hasTask |-> hasTask, slot |-> slot, meshAssets |-> meshAssets,
          children |-> children, earthVis |-> earthVis]

\* FilledSlot with the face of the first job on every entity.
FilledSlot_FirstPatch(j) ==
    [filled |-> TRUE, patch |-> PatchSpec(1),
     material |-> "BoxMaterialHandle", visibility |-> "Inherited"]

\* main.rs 359-363: what job j's entity holds once its mesh is inserted:
\* the mesh of the face the job computed, the one shared material and
\* Visibility::Inherited.
FilledSlot(j) ==
    [filled |-> TRUE, patch |-> PatchSpec(j),
     material |-> "BoxMaterialHandle", visibility |-> "Inherited"]

\* DeferredMutation that adds the face to Assets<Mesh> but inserts nothing
\* on the entity.
DeferredMutation_AssetOnly(w, j) == [w EXCEPT !.meshAssets[j] = @ + 1]

\* main.rs 349-364: the closure a job pushes on its CommandQueue: add the
\* face to Assets<Mesh>, then fill the job's own entity.
DeferredMutation(w, j) ==
    [w EXCEPT !.meshAssets[j] = @ + 1, !.slot[j] = FilledSlot(j)]

\* One queued command applied to the world.
ApplyCommand(w, c) ==
    CASE c.op = "spawn_earth" -> [w EXCEPT !.earthVis = "Hidden"]
      [] c.op = "add_child"   -> [w EXCEPT !.children = Append(@, c.job)]
      [] c.op = "insert_task" -> [w EXCEPT !.hasTask[c.job] = TRUE]
      [] c.op = "mutation"    -> DeferredMutation(w, c.job)
      [] c.op = "remove_task" -> [w EXCEPT !.hasTask[c.job] = FALSE]

RECURSIVE ApplyAll(_, _)
ApplyAll(w, cs) ==
    IF cs = <<>> THEN w ELSE ApplyAll(ApplyCommand(w, Head(cs)), Tail(cs))

\* The flush at the end of a schedule: every queued command, in order.
Flush(next) ==
    /\ ~crashed
    /\ LET w == ApplyAll(World, commands) IN
         /\ hasTask' = w.hasTask
         /\ slot' = w.slot
         /\ meshAssets' = w.meshAssets
         /\ children' = w.children
         /\ earthVis' = w.earthVis
    /\ commands' = <<>>
    /\ phase' = next
    /\ UNCHANGED <<gameState, nextState, frames_rendered, progress,
                   texLoaded, task, pickingMode, crashed>>
    /\ UNCHANGED mathVars

ApplyStartupCommands ==
    /\ phase = "StartupSync"
    /\ Flush("StateTransition")
    /\ UNCHANGED updOrder

ApplyUpdateCommands ==
    /\ phase = "UpdateSync"
    /\ Flush("PostUpdate")
    /\ updOrder' = <<>>

----------------------------------------------------------------------------
(* StateTransition *)

\* EnterPostLoading requesting Loading instead of Playing.
EnterPostLoading_BackToLoading(vis) == [next |-> "Loading", vis |-> "Visible"]

\* EnterPostLoading without `*earth.into_inner() = Visibility::Visible`.
EnterPostLoading_StaysHidden(vis) == [next |-> "Playing", vis |-> vis]

\* main.rs 83-87: the OnEnter(PostLoading) system: what it requests and
\* what it makes of the Earth parent's visibility.
EnterPostLoading(vis) == [next |-> "Playing", vis |-> "Visible"]

\* The OnEnter schedule of the state just entered.  Single<.., With<Earth>>
\* skips the PostLoading system when there is no Earth entity.
OnEnter(entered, vis, mode) ==
    CASE entered = "PostLoading" /\ vis # "NotSpawned" ->
            [next |-> EnterPostLoading(vis).next,
             vis |-> EnterPostLoading(vis).vis, mode |-> mode]
      [] entered = "Playing" ->
            [next |-> "Unchanged", vis |-> vis, mode |-> "Normal"]
      [] OTHER ->
            [next |-> "Unchanged", vis |-> vis, mode |-> mode]

\* The StateTransition schedule: take the pending state, enter it, run its
\* OnEnter systems; a request they make waits for the next frame.
StateTransition ==
    /\ phase = "StateTransition"
    /\ ~crashed
    /\ IF nextState = "Unchanged"
       THEN UNCHANGED <<gameState, nextState, earthVis, pickingMode>>
       ELSE LET r == OnEnter(nextState, earthVis, pickingMode) IN
              /\ gameState' = nextState
              /\ nextState' = r.next
              /\ earthVis' = r.vis
              /\ pickingMode' = r.mode
    /\ phase' = "Update"
    /\ UNCHANGED <<updOrder, frames_rendered, progress, texLoaded, task,
                   hasTask, slot, meshAssets, children, commands, crashed>>
    /\ UNCHANGED mathVars

----------------------------------------------------------------------------
(* Update *)

\* The two systems of main.rs 76-79, run in no fixed order.
LoadingSystems == {"check_ready", "handle_tasks"}

\* Where the control thread stands once system s has run.
AfterSystem(s) ==
    IF Range(updOrder) \cup {s} = LoadingSystems THEN "UpdateSync" ELSE "Update"

\* main.rs 76-79: the run condition and "not yet run in this frame".
CanRun(s) ==
    /\ phase = "Update"
    /\ ~crashed
    /\ gameState = "Loading"
    /\ s \notin Range(updOrder)

\* is_complete with `||` for `&&`.
is_complete_Either(p) == p.texture >= TEXTURE_TARGET \/ p.mesh >= MeshTarget

\* resource.rs 26-28
is_complete(p) == p.texture >= TEXTURE_TARGET /\ p.mesh >= MeshTarget

\* resource.rs 22-24: `(texture / 3.) * 0.7 + (mesh / 24.) * 0.3`, as the
\* exact fraction num / den (24 scaled to MeshTarget).
LoadingProgress_progress(p) ==
    [num |-> 7 * p.texture * MeshTarget + 3 * p.mesh * TEXTURE_TARGET,
     den |-> 10 * TEXTURE_TARGET * MeshTarget]

\* main.rs 153-162: the handles is_loaded_with_dependencies reports loaded.
LoadedCount == Cardinality(texLoaded)

\* check_ready testing the progress before it stores the new count.
CheckReadyRequests_Stale(old, new) ==
    old.texture >= TEXTURE_TARGET /\ old.mesh >= MeshTarget

\* main.rs 164-168: store the count, then test the stored progress.
CheckReadyRequests(old, new) == is_complete(new)

check_ready ==
    /\ CanRun("check_ready")
    /\ LET new == [progress EXCEPT !.texture = LoadedCount] IN
         /\ progress' = new
         /\ nextState' = IF CheckReadyRequests(progress, new)
                         THEN "PostLoading" ELSE nextState
    /\ updOrder' = Append(updOrder, "check_ready")
    /\ phase' = AfterSystem("check_ready")
    /\ UNCHANGED <<gameState, frames_rendered, texLoaded, task, hasTask,
                   slot, meshAssets, children, earthVis, commands,
                   pickingMode, crashed>>
    /\ UNCHANGED mathVars

\* PollTask without `commands.entity(entity).remove::<ComputeMesh>()`.
PollTask_KeepsHandle(acc, j) ==
    CASE acc.task[j] = "running" -> acc
      [] acc.task[j] = "ready" ->
            [acc EXCEPT !.task[j] = "taken",
                        !.cmds = @ \o <<[op |-> "mutation", job |-> j]>>,
                        !.mesh = @ + 1]
      [] OTHER -> [acc EXCEPT !.panicked = TRUE]

\* PollTask without `progress.mesh += 1`.
PollTask_NoCount(acc, j) ==
    CASE acc.task[j] = "running" -> acc
      [] acc.task[j] = "ready" ->
            [acc EXCEPT !.task[j] = "taken",
                        !.cmds = @ \o <<[op |-> "mutation", job |-> j],
                                        [op |-> "remove_task", job |-> j]>>]
      [] OTHER -> [acc EXCEPT !.panicked = TRUE]

\* PollTask counting a job whose computation panicked as complete.
PollTask_CountsFailed(acc, j) ==
    CASE acc.task[j] = "running" -> acc
      [] acc.task[j] = "ready" ->
            [acc EXCEPT !.task[j] = "taken",
                        !.cmds = @ \o <<[op |-> "mutation", job |-> j],
                                        [op |-> "remove_task", job |-> j]>>,
                        !.mesh = @ + 1]
      [] acc.task[j] = "failed" ->
            [acc EXCEPT !.cmds = @ \o <<[op |-> "remove_task", job |-> j]>>,
                        !.mesh = @ + 1]
      [] OTHER -> [acc EXCEPT !.panicked = TRUE]

\* PollTask with block_on for check_ready: it waits for a running task.
PollTask_Blocks(acc, j) ==
    CASE acc.task[j] \in {"running", "ready"} ->
            [acc EXCEPT !.task[j] = "taken",
                        !.cmds = @ \o <<[op |-> "mutation", job |-> j],
                                        [op |-> "remove_task", job |-> j]>>,
                        !.mesh = @ + 1]
      [] OTHER -> [acc EXCEPT !.panicked = TRUE]

\* PollTask with `progress.mesh += 2`.
PollTask_CountsTwice(acc, j) ==
    CASE acc.task[j] = "running" -> acc
      [] acc.task[j] = "ready" ->
            [acc EXCEPT !.task[j] = "taken",
                        !.cmds = @ \o <<[op |-> "mutation", job |-> j],
                                        [op |-> "remove_task", job |-> j]>>,
                        !.mesh = @ + 2]
      [] OTHER -> [acc EXCEPT !.panicked = TRUE]

\* main.rs 381-388: one iteration of handle_tasks' loop over entity j.
\* futures::check_ready polls the task once: a running task is not ready;
\* a finished one yields its queue; a task whose future panicked, or whose
\* output was already taken, panics in the poll.
PollTask(acc, j) ==
    CASE acc.task[j] = "running" -> acc
      [] acc.task[j] = "ready" ->
            [acc EXCEPT !.task[j] = "taken",
                        !.cmds = @ \o <<[op |-> "mutation", job |-> j],
                                        [op |-> "remove_task", job |-> j]>>,
                        !.mesh = @ + 1]
      [] OTHER -> [acc EXCEPT !.panicked = TRUE]

\* main.rs 379: the loop, over the entities in the query's order.
RECURSIVE PollAll(_, _, _)
PollAll(order, i, acc) ==
    IF i > Len(order) \/ acc.panicked THEN acc
    ELSE PollAll(order, i + 1, PollTask(acc, order[i]))

handle_tasks ==
    /\ CanRun("handle_tasks")
    /\ \E order \in Orders({j \in Jobs : hasTask[j]}) :
         LET r == PollAll(order, 1, [task |-> task, cmds |-> <<>>,
                                     mesh |-> progress.mesh,
                                     panicked |-> FALSE]) IN
           /\ task' = r.task
           /\ progress' = [progress EXCEPT !.mesh = r.mesh]
           /\ crashed' = r.panicked
           /\ commands' = IF r.panicked THEN commands ELSE commands \o r.cmds
    /\ updOrder' = Append(updOrder, "handle_tasks")
    /\ phase' = AfterSystem("handle_tasks")
    /\ UNCHANGED <<gameState, nextState, frames_rendered, texLoaded,
                   hasTask, slot, meshAssets, children, earthVis,
                   pickingMode>>
    /\ UNCHANGED mathVars

\* main.rs 76-80: outside Loading neither system runs (rotate_light, in
\* Playing, moves only the light).
UpdateIdle ==
    /\ phase = "Update"
    /\ ~crashed
    /\ gameState # "Loading"
    /\ phase' = "UpdateSync"
    /\ UNCHANGED <<gameState, nextState, updOrder, frames_rendered, progress,
                   texLoaded, task, hasTask, slot, meshAssets, children,
                   earthVis, commands, pickingMode, crashed>>
    /\ UNCHANGED mathVars

----------------------------------------------------------------------------
(* PostUpdate: the egui pass *)

\* DelayElapsed with the threshold one frame early.
DelayElapsed_OneEarly(n) == n >= PRELOAD_FRAMES - 1

\* gui.rs 99: the frame count that requests Loading.
DelayElapsed(n) == n >= PRELOAD_FRAMES

\* gui.rs 42-104, under the run condition of gui.rs 34-37; only lines
\* 97-102 change state.  frames_rendered is a u8.
display_loading_screen ==
    /\ phase = "PostUpdate"
    /\ ~crashed
    /\ gameState \in {"PreLoading", "Loading", "PostLoading"}
    /\ IF gameState = "PreLoading"
       THEN /\ frames_rendered' = (frames_rendered + 1) % 256
            /\ nextState' = IF DelayElapsed(frames_rendered') THEN "Loading"
                            ELSE nextState
       ELSE UNCHANGED <<frames_rendered, nextState>>
    /\ phase' = "StateTransition"
    /\ UNCHANGED <<gameState, updOrder, progress, texLoaded, task, hasTask,
                   slot, meshAssets, children, earthVis, commands,
                   pickingMode, crashed>>
    /\ UNCHANGED mathVars

\* gui.rs 34-37: in Playing the loading screen is not drawn.
PostUpdateIdle ==
    /\ phase = "PostUpdate"
    /\ ~crashed
    /\ gameState = "Playing"
    /\ phase' = "StateTransition"
    /\ UNCHANGED <<gameState, nextState, updOrder, frames_rendered, progress,
                   texLoaded, task, hasTask, slot, meshAssets, children,
                   earthVis, commands, pickingMode, crashed>>
    /\ UNCHANGED mathVars

----------------------------------------------------------------------------
(* Worker threads and the asset server *)

\* A worker that inserts its mesh itself instead of deferring it.
WorkerEffect_DirectInsert(j) ==
    /\ slot' = [slot EXCEPT ![j] = FilledSlot(j)]
    /\ meshAssets' = [meshAssets EXCEPT ![j] = @ + 1]
    /\ UNCHANGED <<gameState, nextState, progress, hasTask, children,
                   earthVis, pickingMode>>

\* What running job j's async block changes besides its own task: nothing
\* (main.rs 344-367 builds a CommandQueue and returns it).
WorkerEffect(j) == UNCHANGED shared

\* main.rs 344-367: the async block of job j runs to its end.
WorkerFinish(j) ==
    /\ ~crashed
    /\ task[j] = "running"
    /\ task' = [task EXCEPT ![j] = "ready"]
    /\ WorkerEffect(j)
    /\ UNCHANGED <<phase, updOrder, frames_rendered, texLoaded, commands,
                   crashed>>
    /\ UNCHANGED mathVars

\* math.rs 77-78, 179: an unwrap() inside generate_face panics; the task
\* is closed without an output.
WorkerPanic(j) ==
    /\ ~crashed
    /\ task[j] = "running"
    /\ task' = [task EXCEPT ![j] = "failed"]
    /\ UNCHANGED shared
    /\ UNCHANGED <<phase, updOrder, frames_rendered, texLoaded, commands,
                   crashed>>
    /\ UNCHANGED mathVars

\* main.rs 129-132: asset_server.load finishes loading texture t.
LoadTexture(t) ==
    /\ ~crashed
    /\ t \notin texLoaded
    /\ texLoaded' = texLoaded \cup {t}
    /\ UNCHANGED <<gameState, nextState, phase, updOrder, frames_rendered,
                   progress, task, hasTask, slot, meshAssets, children,
                   earthVis, commands, pickingMode, crashed>>
    /\ UNCHANGED mathVars

----------------------------------------------------------------------------

ControlStep ==
    \/ spawn_task
    \/ ApplyStartupCommands
    \/ StateTransition
    \/ check_ready
    \/ handle_tasks
    \/ UpdateIdle
    \/ ApplyUpdateCommands
    \/ display_loading_screen
    \/ PostUpdateIdle

Next ==
    \/ ControlStep
    \/ \E j \in Jobs : WorkerFinish(j)
    \/ \E j \in Jobs : WorkerPanic(j)
    \/ \E t \in Textures : LoadTexture(t)

Spec == Init /\ [][Next]_vars

\* The frame loop keeps running, every started computation ends, every
\* texture load ends.
LiveSpec ==
    /\ Spec
    /\ WF_vars(ControlStep)
    /\ \A j \in Jobs : WF_vars(WorkerFinish(j) \/ WorkerPanic(j))

----------------------------------------------------------------------------
(* math.rs: arithmetic *)

\* An f32 of math.rs is modelled by the exact fraction <<n, d>> in lowest
\* terms with d > 0; <<0, 0>> is NaN (the value of 0.0 / 0.0).  No other
\* division by zero occurs in math.rs.
NaN == <<0, 0>>

IsNaN(a) == a[2] = 0

Abs(k) == IF k < 0 THEN -k ELSE k

Sgn(k) == IF k < 0 THEN -1 ELSE IF k = 0 THEN 0 ELSE 1

Max(a, b) == IF a >= b THEN a ELSE b

RECURSIVE GCD(_, _)
GCD(a, b) == IF b = 0 THEN a ELSE GCD(b, a % b)

\* n / d in lowest terms (d # 0).
Rat(n, d) ==
    LET g == GCD(Abs(n), Abs(d)) IN
      <<(Sgn(d) * n) \div g, Abs(d) \div g>>

\* The f32 of a whole number.
Num(k) == <<k, 1>>

FNeg(a) == <<-a[1], a[2]>>

FAdd(a, b) ==
    IF IsNaN(a) \/ IsNaN(b) THEN NaN
    ELSE Rat(a[1] * b[2] + b[1] * a[2], a[2] * b[2])

FSub(a, b) == FAdd(a, FNeg(b))

FMul(a, b) ==
    IF IsNaN(a) \/ IsNaN(b) THEN NaN
    ELSE LET g1 == GCD(Abs(a[1]), b[2])
             g2 == GCD(Abs(b[1]), a[2])
         IN <<(a[1] \div g1) * (b[1] \div g2), (a[2] \div g2) * (b[2] \div g1)>>

FDiv(a, b) ==
    IF IsNaN(a) \/ IsNaN(b) \/ b[1] = 0 THEN NaN
    ELSE FMul(a, <<Sgn(b[1]) * b[2], Abs(b[1])>>)

\* Comparisons with NaN are false.
FLt(a, b) == ~IsNaN(a) /\ ~IsNaN(b) /\ a[1] * b[2] < b[1] * a[2]

FLe(a, b) == ~IsNaN(a) /\ ~IsNaN(b) /\ a[1] * b[2] <= b[1] * a[2]

FEq(a, b) == ~IsNaN(a) /\ ~IsNaN(b) /\ a = b

\* (lo..=hi).contains(&v)
Contains(lo, hi, v) == FLe(lo, v) /\ FLe(v, hi)

\* std::f32::consts::PI, to seven digits.
PI == Rat(355, 113)

\* The largest k with k * k <= n.
RECURSIVE ISqrtFrom(_, _)
ISqrtFrom(n, g) ==
    LET h == (g + n \div g) \div 2 IN IF h >= g THEN g ELSE ISqrtFrom(n, h)

ISqrt(n) == IF n = 0 THEN 0 ELSE ISqrtFrom(n, n)

\* atan(p / q) for 0 <= p <= q, q > 0, in thousandths of a degree, by
\*   atan t = 45 t + t (1 - t) (14.02 + 3.8 t) degrees
\* (exact at t = 0 and t = 1, within 0.09 degrees between).
AtanUnit(p, q) ==
    LET t == (p * 10000) \div q IN
      (45 * t) \div 10
        + (((t * (10000 - t)) \div 10000) * (14020 + (38 * t) \div 100)) \div 10000

\* f32::atan2: the angle of the point (x, y), in thousandths of a degree,
\* within (-180, 180] degrees; atan2(0, 0) = 0 and atan2(0, x) = 180
\* degrees for x < 0 (the zeros of math.rs's vectors are +0.0).
Atan2MilliDeg(y, x) ==
    LET ay == Abs(y)
        ax == Abs(x)
        base == IF ax = 0 /\ ay = 0 THEN 0
                ELSE IF ay <= ax THEN AtanUnit(ay, ax)
                ELSE 90000 - AtanUnit(ax, ay)
    IN IF x >= 0 THEN Sgn(y) * base
       ELSE IF y >= 0 THEN 180000 - base
       ELSE base - 180000

\* An angle of m thousandths of a degree, in radians.
Radians(m) == FMul(Rat(m, 1000), FDiv(PI, Num(180)))

\* Bhaskara's sine for 0 <= d <= 180 degrees (exact at 0, 30, 90, 150, 180).
SinHalfTurn(d) ==
    LET p == FMul(d, FSub(Num(180), d)) IN
      FDiv(FMul(Num(4), p), FSub(Num(40500), p))

\* The sine of d degrees, -360 <= d <= 360.
SinDeg(d) ==
    IF FLt(d, Num(-180)) THEN SinHalfTurn(FAdd(d, Num(360)))
    ELSE IF FLt(d, Num(0)) THEN FNeg(SinHalfTurn(FNeg(d)))
    ELSE IF FLe(d, Num(180)) THEN SinHalfTurn(d)
    ELSE FNeg(SinHalfTurn(FSub(d, Num(180))))

\* f32::sin and f32::cos of an angle in radians.
Sin(a) == SinDeg(FMul(a, FDiv(Num(180), PI)))

Cos(a) == SinDeg(FAdd(FMul(a, FDiv(Num(180), PI)), Num(90)))

----------------------------------------------------------------------------
(* math.rs: the UV mapping *)

\* map without the `out_min +`.
map_DropsOutMin(input_range, output_range, value) ==
    LET in_min == input_range[1]
        in_max == input_range[2]
        out_min == output_range[1]
        out_max == output_range[2]
        normalized == FDiv(FSub(value, in_min), FSub(in_max, in_min))
    IN FMul(normalized, FSub(out_max, out_min))

\* math.rs 12-19
map(input_range, output_range, value) ==
    LET in_min == input_range[1]
        in_max == input_range[2]
        out_min == output_range[1]
        out_max == output_range[2]
        normalized == FDiv(FSub(value, in_min), FSub(in_max, in_min))
    IN FAdd(out_min, FMul(normalized, FSub(out_max, out_min)))

Ok(v) == [kind |-> "Ok", val |-> v]

Err(msg) == [kind |-> "Err", msg |-> msg]

\* map_latitude clamping a latitude out of range instead of returning Err.
map_latitude_Clamps(lat) ==
    IF FLt(Num(90), lat) THEN Ok(Num(0))
    ELSE IF FLt(lat, Num(-90)) THEN Ok(Num(1))
    ELSE IF Contains(Num(0), Num(90), lat)
         THEN Ok(map(<<Num(90), Num(0)>>, <<Num(0), Rat(1, 2)>>, lat))
         ELSE Ok(map(<<Num(0), Num(-90)>>, <<Rat(1, 2), Num(1)>>, lat))

\* math.rs 21-33
map_latitude(lat) ==
    IF ~Contains(Num(-90), Num(90), lat) THEN Err("Invalid latitude")
    ELSE IF Contains(Num(0), Num(90), lat)
         THEN Ok(map(<<Num(90), Num(0)>>, <<Num(0), Rat(1, 2)>>, lat))
         ELSE Ok(map(<<Num(0), Num(-90)>>, <<Rat(1, 2), Num(1)>>, lat))

\* math.rs 35-47
map_longitude(lon) ==
    IF ~Contains(Num(-180), Num(180), lon) THEN Err("Invalid longitude")
    ELSE IF Contains(Num(-180), Num(0), lon)
         THEN Ok(map(<<Num(-180), Num(0)>>, <<Num(0), Rat(1, 2)>>, lon))
         ELSE Ok(map(<<Num(0), Num(180)>>, <<Rat(1, 2), Num(1)>>, lon))

\* math.rs 69-73
as_degrees(self) ==
    [latitude |-> FMul(self.latitude, FDiv(Num(180), PI)),
     longitude |-> FMul(self.longitude, FDiv(Num(180), PI))]

\* math.rs 75-80: unwrap() panics on Err.
convert_to_uv_mercator(self) ==
    LET d == as_degrees(self)
        v == map_latitude(d.latitude)
        u == map_longitude(d.longitude)
    IN IF v.kind = "Err" THEN [kind |-> "panic", msg |-> v.msg]
       ELSE IF u.kind = "Err" THEN [kind |-> "panic", msg |-> u.msg]
       ELSE [kind |-> "uv", u |-> u.val, v |-> v.val]

\* `Coordinates { latitude, longitude }` of the given degrees (the fields
\* are public): main.rs 483-484's conversion without its range checks.
CoordinatesOfDegrees(latitude, longitude) ==
    [latitude |-> FDiv(latitude, FDiv(Num(180), PI)),
     longitude |-> FDiv(longitude, FDiv(Num(180), PI))]

\* main.rs 477-490
from_degrees(latitude, longitude) ==
    IF ~Contains(Num(-90), Num(90), latitude) THEN Err("Invalid latitude")
    ELSE IF ~Contains(Num(-180), Num(180), longitude)
         THEN Err("Invalid longitude")
    ELSE Ok(CoordinatesOfDegrees(latitude, longitude))

----------------------------------------------------------------------------
(* math.rs: points and coordinates *)

\* glam's unit vectors.
Vec3Of(name) ==
    CASE name = "X"     -> <<1, 0, 0>>
      [] name = "NEG_X" -> <<-1, 0, 0>>
      [] name = "Y"     -> <<0, 1, 0>>
      [] name = "NEG_Y" -> <<0, -1, 0>>
      [] name = "Z"     -> <<0, 0, 1>>
      [] name = "NEG_Z" -> <<0, 0, -1>>

\* Vec3::cross
cross(a, b) ==
    <<a[2] * b[3] - a[3] * b[2], a[3] * b[1] - a[1] * b[3],
      a[1] * b[2] - a[2] * b[1]>>

Dot(a, b) == a[1] * b[1] + a[2] * b[2] + a[3] * b[3]

\* The direction of a vector of fractions: whole components, the largest of
\* size 10000.  Vec3::normalize divides by the length instead; asin and
\* atan2 below depend on the direction only.  The zero vector has none.
Direction(value) ==
    LET l12 == (value[1][2] * value[2][2]) \div GCD(value[1][2], value[2][2])
        l == (l12 * value[3][2]) \div GCD(l12, value[3][2])
        w(i) == value[i][1] * (l \div value[i][2])
        m == Max(Abs(w(1)), Max(Abs(w(2)), Abs(w(3))))
        c(i) == Sgn(w(i)) * ((Abs(w(i)) * 10000) \div m)
    IN <<c(1), c(2), c(3)>>

IsZero(value) == value[1][1] = 0 /\ value[2][1] = 0 /\ value[3][1] = 0

\* math.rs 56-66: latitude = asin(y), longitude = atan2(x, z) of the
\* normalized point, in radians; asin(y) is atan2(y, sqrt(x^2 + z^2)).
Coordinates_from(value) ==
    IF IsNaN(value[1]) \/ IsNaN(value[2]) \/ IsNaN(value[3]) \/ IsZero(value)
    THEN [latitude |-> NaN, longitude |-> NaN]
    ELSE LET p == Direction(value) IN
           [latitude |->
                Radians(Atan2MilliDeg(p[2], ISqrt(p[1] * p[1] + p[3] * p[3]))),
            longitude |-> Radians(Atan2MilliDeg(p[1], p[3]))]

\* main.rs 15: const EARTH_RADIUS: Vec3 = Vec3::new(1000., 1000., 1000.)
EARTH_RADIUS == 1000

\* A fraction times EARTH_RADIUS, to the whole unit.
OnEarth(a) == Num(Sgn(a[1]) * ((Abs(a[1]) * EARTH_RADIUS) \div a[2]))

\* main.rs 492-498
get_point_on_sphere(self) ==
    LET y == Sin(self.latitude)
        r == Cos(self.latitude)
        x == FMul(Sin(self.longitude), FNeg(r))
        z == FMul(Cos(self.longitude), r)
    IN <<OnEarth(x), OnEarth(y), OnEarth(z)>>

----------------------------------------------------------------------------
(* math.rs: generate_face *)

\* The resolutions generate_face is evaluated with, besides PoleRes.
MaxRes == 3

\* A resolution whose grid has vertices within one degree of a pole (the
\* app's own is TOTAL_MESH_COUNT = 800).
PoleRes == 64

\* math.rs 107
axis_a(normal) == <<normal[2], normal[3], normal[1]>>

\* math.rs 108
axis_b(normal) == cross(axis_a(normal), normal)

\* math.rs 124: Vec2::new(x as f32, y as f32) / (resolution - 1) as f32
percent(x, y, resolution) ==
    <<FDiv(Num(x), Num(resolution - 1)), FDiv(Num(y), Num(resolution - 1))>>

\* point_on_unit_cube with the offsets added instead of subtracted.
point_on_unit_cube_AddsOffset(normal, resolution, x_offset, y_offset, x, y) ==
    LET pc == percent(x, y, resolution)
        a == axis_a(normal)
        b == axis_b(normal)
        c(i) == FAdd(FAdd(Num(normal[i]),
                          FMul(FAdd(pc[1], Num(x_offset)), Num(a[i]))),
                     FMul(FAdd(pc[2], Num(y_offset)), Num(b[i])))
    IN <<c(1), c(2), c(3)>>

\* math.rs 125-126
point_on_unit_cube(normal, resolution, x_offset, y_offset, x, y) ==
    LET pc == percent(x, y, resolution)
        a == axis_a(normal)
        b == axis_b(normal)
        c(i) == FAdd(FAdd(Num(normal[i]),
                          FMul(FSub(pc[1], Num(x_offset)), Num(a[i]))),
                     FMul(FSub(pc[2], Num(y_offset)), Num(b[i])))
    IN <<c(1), c(2), c(3)>>

\* math.rs 145: lon and lat are point_coords' fields, in radians.
FirstSeam(first_longitude, lon, lat) ==
    /\ FLt(first_longitude, Num(0))
    /\ FLt(Num(0), lon)
    /\ FLt(lat, Num(89))
    /\ FLt(Num(-89), lat)

\* math.rs 151
SecondSeam(x, lon, lat) ==
    x = 0 /\ FEq(lon, Num(180)) /\ FLt(lat, Num(-40))

\* EmitsTriangles with `||` for `&&`: cells of the last row and column too.
EmitsTriangles_EitherEdge(x, y, resolution) ==
    x # resolution - 1 \/ y # resolution - 1

\* math.rs 159
EmitsTriangles(x, y, resolution) == x # resolution - 1 /\ y # resolution - 1

\* math.rs 111-118: the locals before the loops.  The vectors are only
\* pushed to: the model keeps their lengths, the largest index pushed (-1:
\* none) and what the last iteration computed.
GenerateFaceEntry ==
    [x |-> 0, y |-> 0, first_longitude |-> Num(0),
     verticies |-> 0, normals |-> 0, uvs |-> 0, indicies |-> 0,
     max_index |-> -1,
     at |-> <<0, 0>>, percent |-> <<Num(0), Num(0)>>,
     point_on_unit_cube |-> <<Num(0), Num(0), Num(0)>>,
     point_coords |-> [latitude |-> Num(0), longitude |-> Num(0)],
     computed_u |-> Num(0), u |-> Num(0), v |-> Num(0),
     seam1 |-> FALSE, seam2 |-> FALSE]

Pending == [kind |-> "pending"]

\* math.rs 120-170: one iteration of the loops, for vertex (loc.x, loc.y).
generate_face_vertex ==
    /\ fn = "generate_face"
    /\ ret = Pending
    /\ loc.y < args.resolution
    /\ \E point \in {point_on_unit_cube(Vec3Of(args.normal), args.resolution,
                                        args.x_offset, args.y_offset,
                                        loc.x, loc.y)} :
       \E point_coords \in {Coordinates_from(point)} :
       \E uv \in {convert_to_uv_mercator(point_coords)} :
       LET x == loc.x
           y == loc.y
           resolution == args.resolution
           i == x + y * resolution
           lon == point_coords.longitude
           lat == point_coords.latitude
           first == IF y = 0 /\ x = 0 THEN lon ELSE loc.first_longitude
           seam1 == FirstSeam(first, lon, lat)
           seam2 == SecondSeam(x, lon, lat)
           emits == EmitsTriangles(x, y, resolution)
       IN IF uv.kind = "panic"
          THEN /\ loc' = [loc EXCEPT !.at = <<x, y>>,
                                     !.percent = percent(x, y, resolution),
                                     !.point_on_unit_cube = point,
                                     !.point_coords = point_coords,
                                     !.verticies = @ + 1]
               /\ ret' = [kind |-> "panic", in |-> "convert_to_uv_mercator"]
          ELSE /\ loc' =
                    [x |-> IF x = resolution - 1 THEN 0 ELSE x + 1,
                     y |-> IF x = resolution - 1 THEN y + 1 ELSE y,
                     first_longitude |-> first,
                     verticies |-> loc.verticies + 1,
                     normals |-> loc.normals + 1,
                     uvs |-> loc.uvs + 1,
                     indicies |-> loc.indicies + (IF emits THEN 6 ELSE 0),
                     max_index |-> IF emits
                                   THEN Max(loc.max_index, i + resolution + 1)
                                   ELSE loc.max_index,
                     at |-> <<x, y>>,
                     percent |-> percent(x, y, resolution),
                     point_on_unit_cube |-> point,
                     point_coords |-> point_coords,
                     computed_u |-> uv.u,
                     u |-> IF seam1 \/ seam2 THEN Num(0) ELSE uv.u,
                     v |-> uv.v,
                     seam1 |-> seam1, seam2 |-> seam2]
               /\ ret' = ret
    /\ UNCHANGED <<fn, args, appVars>>

\* math.rs 172-180: the loops are over; the mesh is built and returned.
\* Tangent generation needs a triangle.
generate_face_return ==
    /\ fn = "generate_face"
    /\ ret = Pending
    /\ loc.y = args.resolution
    /\ loc.indicies > 0
    /\ ret' = [kind |-> "mesh", positions |-> loc.verticies,
               normals |-> loc.normals, uvs |-> loc.uvs,
               indices |-> loc.indicies, max_index |-> loc.max_index]
    /\ UNCHANGED <<fn, args, loc, appVars>>

\* math.rs 179: generate_tangents() returns Err (without a triangle it
\* always does) and unwrap() panics.
generate_face_tangents_fail ==
    /\ fn = "generate_face"
    /\ ret = Pending
    /\ loc.y = args.resolution
    /\ ret' = [kind |-> "panic", in |-> "generate_tangents"]
    /\ UNCHANGED <<fn, args, loc, appVars>>

----------------------------------------------------------------------------
(* math.rs: the other functions, evaluated on their own *)

\* Halves of the steps the angles of the calls are taken in.
AngleSteps == 6

\* The degrees from -limit to limit in AngleSteps steps a side, one step
\* and one degree beyond either end.
Degrees(limit) ==
    {Rat(limit * k, AngleSteps) : k \in -(AngleSteps + 1)..(AngleSteps + 1)}
      \cup {Num(limit + 1), Num(-(limit + 1))}

eval_map_latitude ==
    /\ fn = "map_latitude"
    /\ ret = Pending
    /\ ret' = map_latitude(args.lat)
    /\ UNCHANGED <<fn, args, loc, appVars>>

eval_map_longitude ==
    /\ fn = "map_longitude"
    /\ ret = Pending
    /\ ret' = map_longitude(args.lon)
    /\ UNCHANGED <<fn, args, loc, appVars>>

eval_convert_to_uv_mercator ==
    /\ fn = "convert_to_uv_mercator"
    /\ ret = Pending
    /\ ret' = convert_to_uv_mercator(args.self)
    /\ UNCHANGED <<fn, args, loc, appVars>>

eval_get_point_on_sphere ==
    /\ fn = "get_point_on_sphere"
    /\ ret = Pending
    /\ ret' = [kind |-> "Vec3", val |-> get_point_on_sphere(args.self)]
    /\ UNCHANGED <<fn, args, loc, appVars>>

\* Coordinates::from applied to the point get_point_on_sphere returned;
\* `of` keeps the coordinates the point was made from.
eval_Coordinates_from ==
    /\ fn = "get_point_on_sphere"
    /\ ret.kind = "Vec3"
    /\ fn' = "Coordinates::from"
    /\ args' = [value |-> ret.val, of |-> args.self]
    /\ ret' = [kind |-> "Coordinates", val |-> Coordinates_from(ret.val)]
    /\ UNCHANGED <<loc, appVars>>

\* One call, with its arguments, about to be evaluated.
MathInit ==
    /\ ProgramStart
    /\ ret = Pending
    /\ \/ /\ fn = "generate_face"
          /\ args \in {[normal |-> faces[f], resolution |-> r,
                        x_offset |-> offsets[o][1], y_offset |-> offsets[o][2]] :
                          f \in 1..Len(faces), o \in 1..Len(offsets),
                          r \in (0..MaxRes) \cup {PoleRes}}
          /\ loc = GenerateFaceEntry
       \/ /\ fn = "map_latitude"
          /\ args \in {[lat |-> d] : d \in Degrees(90)}
          /\ loc = NoCall
       \/ /\ fn = "map_longitude"
          /\ args \in {[lon |-> d] : d \in Degrees(180)}
          /\ loc = NoCall
       \/ /\ fn = "convert_to_uv_mercator"
          /\ args \in {[self |-> CoordinatesOfDegrees(la, lo)] :
                          la \in Degrees(90), lo \in Degrees(180)}
          /\ loc = NoCall
       \/ /\ fn = "get_point_on_sphere"
          /\ args \in {[self |-> from_degrees(la, lo).val] :
                          la \in {d \in Degrees(90) :
                                    FLt(Num(-90), d) /\ FLt(d, Num(90))},
                          lo \in {d \in Degrees(180) :
                                    FLt(Num(-180), d) /\ FLt(d, Num(180))}}
          /\ loc = NoCall

MathNext ==
    \/ generate_face_vertex
    \/ generate_face_return
    \/ generate_face_tangents_fail
    \/ eval_map_latitude
    \/ eval_map_longitude
    \/ eval_convert_to_uv_mercator
    \/ eval_get_point_on_sphere
    \/ eval_Coordinates_from

MathSpec == MathInit /\ [][MathNext]_vars


----------------------------------------------------------------------------
(* Claims *)

\* Every job's result has been merged: the counter is at its target, no
\* entity carries ComputeMesh, every slot holds its own job's patch, added
\* to the registry once.
AllMerged ==
    /\ progress.mesh = MeshTarget
    /\ \A j \in Jobs :
         ~hasTask[j] /\ slot[j] = FilledSlot(j) /\ meshAssets[j] = 1

\* C1: if no job's computation ever fails, then under the fair frame loop
\* the system reaches, and stays in, the state where meshes_completed is at
\* its target, no job handle is pending and every slot is filled by its own
\* job; that state is one and the same whatever the order in which the
\* computations finish.
C1_AllJobsEventuallyMerged ==
    ([](\A j \in Jobs : task[j] # "failed")) => <>[]AllMerged

\* C1 witness: all results merged while the textures are still loading.
C1_Witness ==
    AllMerged /\ gameState = "Loading" /\ texLoaded # Textures

\* C2: a job's deferred mutation is applied at most once, its handle is
\* taken at most once (the counter counts exactly the taken handles), and
\* whenever handle_tasks is about to run no entity it will poll holds a
\* handle whose result was already taken.
C2_ConsumedAtMostOnce ==
    /\ \A j \in Jobs : meshAssets[j] <= 1
    /\ progress.mesh = Cardinality({j \in Jobs : task[j] = "taken"})
    /\ CanRun("handle_tasks") =>
          \A j \in Jobs : hasTask[j] => task[j] # "taken"

\* C2 witness: handle_tasks has run again, in a later frame than the one
\* that took job j's result, while another job is still pending.
C2_Witness ==
    /\ "handle_tasks" \in Range(updOrder)
    /\ commands = <<>>
    /\ \E j, k \in Jobs :
         /\ task[j] = "taken" /\ ~hasTask[j] /\ meshAssets[j] = 1
         /\ hasTask[k] /\ task[k] \in {"running", "ready"}

\* The position of a state in GameState's declaration order.
StateIndex(st) == CHOOSE i \in 1..Len(GameStates) : GameStates[i] = st

\* C3: every change of the load state goes from a state to its immediate
\* successor in PreLoading, Loading, PostLoading, Playing: never backward,
\* never skipping, never re-entering, and never out of Playing.
C3_StrictlyForward ==
    [][gameState' # gameState =>
          StateIndex(gameState') = StateIndex(gameState) + 1]_vars

\* C3 witness: Playing has been reached (through every state before it).
C3_Witness == gameState = "Playing" /\ pickingMode = "Normal"

\* C4: while the state is Loading, a transition is pending only if it is
\* the one to PostLoading and both counters are at their targets; with
\* either counter below its target nothing is pending, so the state stays
\* Loading.
C4_PostLoadingOnlyWhenComplete ==
    (gameState = "Loading" /\ nextState # "Unchanged") =>
        /\ nextState = "PostLoading"
        /\ progress.mesh >= MeshTarget
        /\ progress.texture >= TEXTURE_TARGET

\* C4 witness: check_ready has requested PostLoading.
C4_Witness ==
    gameState = "Loading" /\ nextState = "PostLoading" /\ phase = "UpdateSync"

\* C5 as stated: at the end of the Update in which both counters are at
\* their targets, PostLoading has been requested, whichever of check_ready
\* and handle_tasks ran first.
C5_RequestedInTheTickTargetsReached ==
    (/\ phase = "UpdateSync"
     /\ gameState = "Loading"
     /\ progress.mesh >= MeshTarget
     /\ progress.texture >= TEXTURE_TARGET) => nextState = "PostLoading"

\* C5 amended: a check_ready that runs in Loading with the mesh counter at
\* its target and all textures loaded requests PostLoading in that run; an
\* Update can end with both counters at target and no request only when
\* check_ready ran before the handle_tasks that took the last result in
\* that same frame (the request then comes from the next frame's
\* check_ready); and a pending request is applied by the next
\* StateTransition.
C5_RequestedByFirstCheckReadyAfterTargets ==
    /\ []((/\ phase = "UpdateSync"
           /\ gameState = "Loading"
           /\ progress.mesh >= MeshTarget
           /\ progress.texture >= TEXTURE_TARGET
           /\ nextState # "PostLoading") =>
              /\ updOrder = <<"check_ready", "handle_tasks">>
              /\ \E j \in Jobs : [op |-> "mutation", job |-> j] \in Range(commands))
    /\ [][(/\ updOrder' = Append(updOrder, "check_ready")
           /\ progress.mesh >= MeshTarget
           /\ texLoaded = Textures) => nextState' = "PostLoading"]_vars
    /\ [][(phase = "StateTransition" /\ phase' # phase
           /\ nextState = "PostLoading") => gameState' = "PostLoading"]_vars

\* C5 witness: an Update ends with both counters at target and no request.
C5_Witness ==
    /\ phase = "UpdateSync"
    /\ gameState = "Loading"
    /\ progress.mesh >= MeshTarget
    /\ progress.texture >= TEXTURE_TARGET
    /\ nextState = "Unchanged"

\* C6: with fewer than 3 frames rendered the state is PreLoading and no
\* transition is pending; the 3rd rendered frame requests Loading, whatever
\* the counters, textures and tasks are; and no 4th frame is rendered in
\* PreLoading.
C6_LoadingAfterThreeFrames ==
    /\ frames_rendered < 3 => gameState = "PreLoading" /\ nextState = "Unchanged"
    /\ (frames_rendered >= 3 /\ gameState = "PreLoading") => nextState = "Loading"
    /\ frames_rendered <= 3

\* C6 witness: the 3rd frame has just been rendered in PreLoading.
C6_Witness ==
    frames_rendered = 3 /\ gameState = "PreLoading" /\ nextState = "Loading"

\* C7: PostLoading is entered only by a StateTransition, always has Playing
\* pending, and is left for Playing by the very next StateTransition; the
\* step that requests Playing is the step that turns the Earth parent from
\* Hidden to Visible.
C7_PlayingOneTickAfterPostLoading ==
    /\ [](gameState = "PostLoading" => nextState = "Playing")
    /\ [][(gameState' = "PostLoading" /\ gameState # "PostLoading") =>
             phase = "StateTransition"]_vars
    /\ [][(gameState = "PostLoading" /\ phase = "StateTransition"
           /\ phase' # phase) => gameState' = "Playing"]_vars
    /\ [][(nextState' = "Playing" /\ nextState # "Playing") <=>
             (earthVis = "Hidden" /\ earthVis' = "Visible")]_vars

\* C7 witness: Playing entered from PostLoading, the Earth visible.
C7_Witness ==
    gameState = "Playing" /\ earthVis = "Visible" /\ nextState = "Unchanged"

\* C8: a job whose computation failed never has a mesh in its slot or in
\* the registry, is never among the jobs the counter counts, and its
\* computation is never run again.
C8_FailedJobNeverCounted ==
    /\ [](/\ \A j \in Jobs :
               task[j] = "failed" => slot[j] = NoMesh /\ meshAssets[j] = 0
          /\ progress.mesh <= Cardinality({j \in Jobs : task[j] = "taken"}))
    /\ [][\A j \in Jobs : task[j] = "failed" => task'[j] = "failed"]_vars

\* C8 witness: a failed job has been polled after another was counted.
C8_Witness ==
    /\ crashed
    /\ progress.mesh >= 1
    /\ \E j \in Jobs : task[j] = "failed" /\ hasTask[j]

\* C9 as stated: polling a failed job does not stop the control loop.
C9_ControlLoopSurvivesFailure == ~crashed

\* C10: a step in which a worker's computation ends changes no shared
\* state; a job's slot and registry entry change only in the command flush
\* of an Update, after handle_tasks took the job's result, and only to the
\* job's own filled slot.
C10_WorkersTouchNoSharedState ==
    /\ [][(\E j \in Jobs : task[j] = "running" /\ task'[j] # "running") =>
             UNCHANGED shared]_vars
    /\ [][\A j \in Jobs :
             (slot'[j] # slot[j] \/ meshAssets'[j] # meshAssets[j]) =>
                /\ phase = "UpdateSync"
                /\ task[j] = "taken"
                /\ slot'[j] = FilledSlot(j)]_vars

\* C10 witness: one job's result is merged while another job's computation
\* has ended and its result is not yet taken.
C10_Witness ==
    \E j, k \in Jobs :
        /\ slot[j] = FilledSlot(j)
        /\ task[k] = "ready" /\ hasTask[k] /\ slot[k] = NoMesh

\* C11: in every reachable state progress.mesh is at most its target (24)
\* and progress.texture at most 3, so the progress fraction
\* 0.7 * texture/3 + 0.3 * mesh/24 lies in [0, 1], and it is 1 exactly when
\* both counters are at their targets.
C11_CountersBounded ==
    LET f == LoadingProgress_progress(progress) IN
      /\ progress.mesh <= MeshTarget
      /\ progress.texture <= TEXTURE_TARGET
      /\ 0 <= f.num /\ f.num <= f.den
      /\ f.num = f.den <=>
            (progress.mesh = MeshTarget /\ progress.texture = TEXTURE_TARGET)

\* Both counters have been counted up to their targets: the fraction is 1.
C11_Witness ==
    /\ progress.mesh = MeshTarget
    /\ progress.texture = TEXTURE_TARGET
    /\ LoadingProgress_progress(progress).num
         = LoadingProgress_progress(progress).den
    /\ gameState = "Loading"

\* C12: for each of the six normals, each of the four offsets and every
\* resolution >= 2, the mesh generate_face returns has resolution^2
\* positions, as many normals and UVs, 6 * (resolution - 1)^2 indices, and
\* every index is below resolution^2.
C12_FaceCounts ==
    (fn = "generate_face" /\ ret.kind = "mesh" /\ args.resolution >= 2) =>
        LET r == args.resolution IN
          /\ ret.positions = r * r
          /\ ret.normals = r * r
          /\ ret.uvs = r * r
          /\ ret.indices = 6 * (r - 1) * (r - 1)
          /\ ret.max_index >= 0 /\ ret.max_index < r * r

\* A 3 x 3 patch of the NEG_Z face has been returned: 9 vertices, 24 indices.
C12_Witness ==
    /\ fn = "generate_face"
    /\ ret.kind = "mesh"
    /\ args.resolution = 3
    /\ args.normal = "NEG_Z" /\ args.x_offset = 1 /\ args.y_offset = 1
    /\ ret.positions = 9
    /\ ret.indices = 24

\* The fraction a lies within [-limit, limit].
Within(a, limit) == -limit * a[2] <= a[1] /\ a[1] <= limit * a[2]

\* C13: the conversion of degrees to UV signals a range error, distinct
\* from a successful result, for every latitude outside [-90, 90] and every
\* longitude outside [-180, 180], and succeeds for every value within,
\* +-90 and +-180 included: map_latitude and map_longitude return Err or
\* Ok, convert_to_uv_mercator panics or returns (u, v).
C13_RangeErrorSignalled ==
    /\ (fn = "map_latitude" /\ ret # Pending) =>
          ret.kind = IF Within(args.lat, 90) THEN "Ok" ELSE "Err"
    /\ (fn = "map_longitude" /\ ret # Pending) =>
          ret.kind = IF Within(args.lon, 180) THEN "Ok" ELSE "Err"
    /\ (fn = "convert_to_uv_mercator" /\ ret # Pending) =>
          LET d == as_degrees(args.self) IN
            ret.kind = IF Within(d.latitude, 90) /\ Within(d.longitude, 180)
                       THEN "uv" ELSE "panic"

\* Latitude 91 has been refused by convert_to_uv_mercator (longitude 180
\* alone would have passed).
C13_Witness ==
    /\ fn = "convert_to_uv_mercator"
    /\ as_degrees(args.self).latitude = Num(91)
    /\ as_degrees(args.self).longitude = Num(180)
    /\ ret.kind = "panic"

\* The boundary values -90 and 180 have been mapped.
C13_BoundaryWitness ==
    /\ fn = "convert_to_uv_mercator"
    /\ as_degrees(args.self).latitude = Num(-90)
    /\ as_degrees(args.self).longitude = Num(180)
    /\ ret.kind = "uv"

\* C14: on its valid domain the UV mapping is the stated piecewise-linear
\* map and is injective: v = (90 - latitude) / 180, so 90 -> 0, 0 -> 0.5,
\* -90 -> 1, strictly decreasing in the latitude; u = (longitude + 180) / 360,
\* so -180 -> 0, 0 -> 0.5, 180 -> 1, strictly increasing in the longitude;
\* the two segments of each map give the same value at 0.
C14_PiecewiseLinearInjective ==
    /\ (fn = "map_latitude" /\ ret # Pending /\ ret.kind = "Ok") =>
          /\ FEq(FMul(ret.val, Num(180)), FSub(Num(90), args.lat))
          /\ args.lat = Num(90) => ret.val = Num(0)
          /\ args.lat = Num(0) => ret.val = Rat(1, 2)
          /\ args.lat = Num(-90) => ret.val = Num(1)
          /\ \A b \in {d \in Degrees(90) : Within(d, 90)} :
                FLt(args.lat, b) => FLt(map_latitude(b).val, ret.val)
    /\ (fn = "map_longitude" /\ ret # Pending /\ ret.kind = "Ok") =>
          /\ FEq(FMul(ret.val, Num(360)), FAdd(args.lon, Num(180)))
          /\ args.lon = Num(-180) => ret.val = Num(0)
          /\ args.lon = Num(0) => ret.val = Rat(1, 2)
          /\ args.lon = Num(180) => ret.val = Num(1)
          /\ \A b \in {d \in Degrees(180) : Within(d, 180)} :
                FLt(args.lon, b) => FLt(ret.val, map_longitude(b).val)
    /\ (fn \in {"map_latitude", "map_longitude"} /\ ret # Pending) =>
          /\ map(<<Num(90), Num(0)>>, <<Num(0), Rat(1, 2)>>, Num(0))
               = map(<<Num(0), Num(-90)>>, <<Rat(1, 2), Num(1)>>, Num(0))
          /\ map(<<Num(-180), Num(0)>>, <<Num(0), Rat(1, 2)>>, Num(0))
               = map(<<Num(0), Num(180)>>, <<Rat(1, 2), Num(1)>>, Num(0))

\* Latitude -45, on the second segment, has been mapped to v = 3/4.
C14_Witness ==
    /\ fn = "map_latitude"
    /\ args.lat = Num(-45)
    /\ ret = Ok(Rat(3, 4))

\* C15: generate_face called with resolution < 2 fails fast: it returns no
\* mesh and never divides by resolution - 1 = 0 (percent is never NaN).
C15_FailsFastBelowTwo ==
    (fn = "generate_face" /\ args.resolution < 2) =>
        /\ ret.kind # "mesh"
        /\ ~IsNaN(loc.percent[1])
        /\ ~IsNaN(loc.percent[2])

\* The fractions a and b differ by at most one (degree): the floating
\* tolerance, widened to the accuracy of Sin, Cos and AtanUnit.
Close(a, b) == FLe(FSub(a, b), Num(1)) /\ FLe(FSub(b, a), Num(1))

\* C16: for a latitude strictly between -90 and 90 degrees and a longitude
\* strictly between -180 and 180 degrees, get_point_on_sphere followed by
\* Coordinates::from gives back the same latitude and the same longitude,
\* sign included.
C16_RoundTrip ==
    fn = "Coordinates::from" =>
        /\ Close(as_degrees(ret.val).latitude, as_degrees(args.of).latitude)
        /\ Close(as_degrees(ret.val).longitude, as_degrees(args.of).longitude)

\* The jobs whose result this step takes.
Consumed == {j \in Jobs : task[j] # "taken" /\ task'[j] = "taken"}

\* C17: a run of handle_tasks while a job's computation is unfinished ends
\* without waiting for it: the job stays running with its handle, its slot
\* stays unfilled, nothing is queued for it and it is not counted; the jobs
\* the run consumes had finished, and progress.mesh grows by exactly one
\* for each of them; unless the run panics, it consumes every finished job.
C17_PollIsNonBlocking ==
    [][updOrder' = Append(updOrder, "handle_tasks") =>
         /\ \A j \in Jobs :
               task[j] = "running" =>
                 /\ task'[j] = "running"
                 /\ hasTask'[j] = hasTask[j]
                 /\ slot'[j] = slot[j]
                 /\ \A c \in Range(commands') : c.job # j
         /\ Consumed \subseteq {j \in Jobs : hasTask[j] /\ task[j] = "ready"}
         /\ progress'.mesh = progress.mesh + Cardinality(Consumed)
         /\ ~crashed' =>
               Consumed = {j \in Jobs : hasTask[j] /\ task[j] = "ready"}
    ]_vars

\* handle_tasks has just run: it took job 1's result, which is queued and
\* counted, and left job 2 running with its handle and an unfilled slot.
C17_Witness ==
    /\ "handle_tasks" \in Range(updOrder)
    /\ task[1] = "taken"
    /\ [op |-> "mutation", job |-> 1] \in Range(commands)
    /\ progress.mesh = 1
    /\ task[2] = "running" /\ hasTask[2] /\ slot[2] = NoMesh
    /\ ~crashed

PatchPoints(normal, resolution, o) ==
    {point_on_unit_cube(normal, resolution, o[1], o[2], x, y) :
        x \in 0..(resolution - 1), y \in 0..(resolution - 1)}

\* The coordinate of point p of face `normal` along the tangent axis.
Along(p, normal, axis) ==
    FAdd(FAdd(FMul(FSub(p[1], Num(normal[1])), Num(axis[1])),
              FMul(FSub(p[2], Num(normal[2])), Num(axis[2]))),
         FMul(FSub(p[3], Num(normal[3])), Num(axis[3])))

\* C19: the 24 patches tile the cube without gaps or overlaps.  When the
\* last of a face's four patches (offset (1, 1)) has been returned, for
\* that face and resolution: the grid points of
\* the face's four patches lie in the face's plane and cover the whole
\* grid over [-1, 1] x [-1, 1] of the two tangent axes; two patches share
\* only points with tangent coordinate 0 on the axis their offsets differ
\* in; and the six normals are six different unit vectors, each with
\* axis_a and axis_b of unit length, orthogonal to it and to each other.
C19_PatchesTileTheCube ==
    (/\ fn = "generate_face" /\ ret.kind = "mesh"
     /\ <<args.x_offset, args.y_offset>> = offsets[Len(offsets)]) =>
        LET n == Vec3Of(args.normal)
            r == args.resolution
            a == axis_a(n)
            b == axis_b(n)
        IN /\ \A Patches \in {{<<o, PatchPoints(n, r, offsets[o])>> :
                                   o \in 1..Len(offsets)}} :
                 /\ \A All \in {UNION {q[2] : q \in Patches}} :
                       /\ \A p \in All :
                             FAdd(FAdd(FMul(p[1], Num(n[1])),
                                       FMul(p[2], Num(n[2]))),
                                  FMul(p[3], Num(n[3]))) = Num(1)
                       /\ {<<Along(p, n, a), Along(p, n, b)>> : p \in All}
                             = {<<Rat(i, r - 1), Rat(j, r - 1)>> :
                                   i \in -(r - 1)..(r - 1),
                                   j \in -(r - 1)..(r - 1)}
                 /\ \A q1, q2 \in Patches :
                       q1[1] # q2[1] =>
                         \A p \in q1[2] \cap q2[2] :
                           /\ offsets[q1[1]][1] # offsets[q2[1]][1]
                                 => Along(p, n, a) = Num(0)
                           /\ offsets[q1[1]][2] # offsets[q2[1]][2]
                                 => Along(p, n, b) = Num(0)
           /\ Cardinality({Vec3Of(faces[f]) : f \in 1..Len(faces)}) = 6
           /\ \A f \in 1..Len(faces) :
                 LET m == Vec3Of(faces[f]) IN
                   /\ Dot(m, m) = 1
                   /\ Dot(axis_a(m), axis_a(m)) = 1
                   /\ Dot(axis_b(m), axis_b(m)) = 1
                   /\ Dot(axis_a(m), m) = 0
                   /\ Dot(axis_b(m), m) = 0
                   /\ Dot(axis_a(m), axis_b(m)) = 0

\* The 3 x 3 patch of face Y at offset (1, 1) has been returned; its last
\* vertex is the centre (0, 1, 0) of the face, shared by all four patches.
C19_Witness ==
    /\ fn = "generate_face"
    /\ ret.kind = "mesh"
    /\ args = [normal |-> "Y", resolution |-> 3, x_offset |-> 1, y_offset |-> 1]
    /\ loc.point_on_unit_cube = <<Num(0), Num(1), Num(0)>>

\* C20: the first seam correction of generate_face.  For the vertex the
\* loop body has just handled, with its latitude taken in degrees: u was
\* forced to 0 by the first rule exactly when first_longitude < 0, the
\* vertex's longitude > 0 and its latitude is strictly within (-89, 89)
\* degrees; and a vertex at or beyond 89 degrees of latitude, which the
\* second rule does not touch, keeps its computed u.
C20_FirstSeamOnlyInMidLatitudes ==
    (fn = "generate_face" /\ loc.verticies > 0 /\ ret.kind # "panic") =>
        LET lon == loc.point_coords.longitude
            lat == as_degrees(loc.point_coords).latitude
            mid == FLt(Num(-89), lat) /\ FLt(lat, Num(89))
        IN /\ loc.seam1 <=> (/\ FLt(loc.first_longitude, Num(0))
                             /\ FLt(Num(0), lon)
                             /\ mid)
           /\ (~mid /\ ~loc.seam2) => loc.u = loc.computed_u

\* C21: the second seam correction of generate_face.  For the vertex the
\* loop body has just handled, with its coordinates taken in degrees: a
\* vertex of the first column (x = 0) whose longitude is exactly 180
\* degrees and whose latitude is below -40 degrees has u = 0.
C21_SecondSeamForcesZero ==
    (fn = "generate_face" /\ loc.verticies > 0 /\ ret.kind # "panic") =>
        \A d \in {as_degrees(loc.point_coords)} :
            (/\ loc.at[1] = 0
             /\ FEq(d.longitude, Num(180))
             /\ FLt(d.latitude, Num(-40))) => loc.u = Num(0)

\* C22: no patch-generation job is dispatched while the state is
\* PreLoading: as long as gameState is PreLoading no task has been spawned
\* on the task pool and no ComputeMesh has been queued or inserted.
C22_NoJobWhilePreLoading ==
    gameState = "PreLoading" =>
        /\ \A j \in Jobs : task[j] = "unspawned" /\ ~hasTask[j]
        /\ \A i \in 1..Len(commands) : commands[i].op # "insert_task"

\* C23: the gating invariant.  Whenever the state is PostLoading or
\* Playing, or the Earth parent is Visible, every child slot holds a mesh
\* and no entity carries a ComputeMesh handle any more (every task's
\* output has been taken); and in PreLoading and Loading the Earth parent
\* is never Visible: it is Hidden from the moment the Startup commands
\* have spawned it.
C23_GatingInvariant ==
    /\ (gameState \in {"PostLoading", "Playing"} \/ earthVis = "Visible") =>
          \A j \in Jobs :
              slot[j].filled /\ ~hasTask[j] /\ task[j] = "taken"
    /\ gameState \in {"PreLoading", "Loading"} =>
          IF phase \in {"Startup", "StartupSync"}
          THEN earthVis = "NotSpawned"
          ELSE earthVis = "Hidden"

\* PostLoading has just been entered: its OnEnter system has made the
\* Earth parent Visible, over children that all hold their mesh.
C23_Witness ==
    /\ gameState = "PostLoading"
    /\ earthVis = "Visible"
    /\ phase = "Update"
    /\ \A j \in Jobs : slot[j] = FilledSlot(j) /\ ~hasTask[j]

\* C24: counter/slot consistency.  At every tick boundary (the commands of
\* the schedule just run have been applied: none is queued) progress.mesh
\* equals the number of child slots that hold a mesh, which equals the
\* number of jobs minus the number of entities still carrying a
\* ComputeMesh; and each filled slot holds the one mesh made from the patch
\* of its own job, and the one shared material.
C24_CounterMatchesSlots ==
    phase \in {"StateTransition", "PostUpdate"} =>
        /\ commands = <<>>
        /\ progress.mesh = Cardinality({j \in Jobs : slot[j].filled})
        /\ progress.mesh = NumJobs - Cardinality({j \in Jobs : hasTask[j]})
        /\ \A j \in Jobs :
              slot[j].filled =>
                /\ slot[j].patch = PatchSpec(j)
                /\ slot[j].material = "BoxMaterialHandle"
                /\ meshAssets[j] = 1

\* The end of an Update in Loading that merged some jobs but not all: the
\* second job's slot is filled, another job still carries its handle.
C24_Witness ==
    /\ phase = "PostUpdate"
    /\ gameState = "Loading"
    /\ progress.mesh > 0
    /\ progress.mesh < NumJobs
    /\ slot[2].filled
    /\ \E j \in Jobs : hasTask[j] /\ ~slot[j].filled
====
